---- MODULE Spec2Model ----
(***************************************************************************)
(* Stack Hero: the drop-resolution core of js/games/physics-stack-tower.   *)
(*                                                                         *)
(* Numbers.  The game computes with JavaScript doubles; the model uses     *)
(* exact integers in fixed units so that every product the code forms is   *)
(* an integer:                                                             *)
(*   lengths and positions   1/60 pixel        (UnitsPerPixel)             *)
(*   speeds                  1/1000 pixel/ms                               *)
(*   times and deltaTime     1000/60 ms, so that speed * deltaTime is a    *)
(*                           length in 1/60 pixel                          *)
(*   perfectThreshold        percent                                       *)
(*   Math.random()           n / RandomDen, n drawn from the ...Draws sets *)
(***************************************************************************)
EXTENDS Integers, Sequences, FiniteSets, TLC

VARIABLES
    tower,                 \* gameState.tower
    currentBlock,          \* gameState.currentBlock
    score,                 \* gameState.score
    level,                 \* gameState.level
    isActive,              \* gameState.isActive
    isPaused,              \* gameState.isPaused
    blocksPlaced,          \* gameState.blocksPlaced
    blocksInCurrentLevel,  \* gameState.blocksInCurrentLevel
    perfectThreshold,      \* gameState.perfectThreshold
    comboStreak,           \* gameState.comboStreak
    currentLevelConfig,    \* gameState.currentLevelConfig
    currentLevelParams,    \* gameState.currentLevelParams
    gravityShiftVerticalSpeed, \* gameState.gravityShiftVerticalSpeed
    lastResult,            \* what the last dropBlock() call returned
    startLevel,            \* the argument of the last initGame(level) call
    frames,                \* updateGame calls that left the moving block over the tower top
    popupTimers,           \* level-complete popups waiting for their 2000 ms timer
    closeTimers,           \* level-complete popups waiting for their 300 ms timer
    gameOverTimers,        \* showGameOver timers scheduled by a collapse or a failed drop
    drops,                 \* dropBlock() calls since the page was loaded that placed a block or ended the session
    lastTime,              \* lastTime of the game loop
    localStorage,          \* the items of window.localStorage the game uses
    thrown,                \* the exception the last storage call let escape
    pauseOverlay,          \* pauseOverlay.style.display is 'flex'
    gameOverOverlay        \* gameOverOverlay.style.display is 'flex'

gameVars == <<tower, currentBlock, score, level, isActive, isPaused,
              blocksPlaced, blocksInCurrentLevel, perfectThreshold,
              comboStreak, currentLevelConfig, currentLevelParams,
              gravityShiftVerticalSpeed>>

timerVars == <<popupTimers, closeTimers, gameOverTimers>>

envVars == <<lastTime, localStorage, thrown>>

overlayVars == <<pauseOverlay, gameOverOverlay>>

vars == <<tower, currentBlock, score, level, isActive, isPaused,
          blocksPlaced, blocksInCurrentLevel, perfectThreshold,
          comboStreak, currentLevelConfig, currentLevelParams,
          gravityShiftVerticalSpeed, lastResult, startLevel, frames,
          popupTimers, closeTimers, gameOverTimers, drops,
          lastTime, localStorage, thrown, pauseOverlay, gameOverOverlay>>

----------------------------------------------------------------------------
(* Bounds of the exploration *)

MaxDrops == 3     \* drops explored that place a block or end the session
MaxFrames == 6    \* frames explored with the moving block over the tower top
MaxSavedBlocks == 3  \* blocks in the tower of a saved state handed to setState
MaxTime == 8      \* last frame timestamp explored, in units of 1000/60 ms
MaxGames == 11

\* the drops and the frames per block of a session played through all levels
MaxRunDrops == 21
MaxRunFrames == 16

\* the highest endless level explored: the width floors and the cap of the
\* perfect threshold are in force from level 31 on
MaxEndlessLevel == 32    \* saveHighScore calls explored

(* Units *)

UnitsPerPixel == 60
RandomDen == 2
WidthDraws == {1}        \* Math.random() of the block width: 1/2
SpeedDraws == {0}        \* Math.random() of the speed variations: 0
VerticalDraws == {0, 1}  \* Math.random() of the vertical speed: 0 or 1/2
FrameDraws == {0}        \* Math.random() of Block.update: 0
WindSines == {1}         \* Math.sin(Date.now() * 0.005) in Block.update
DeltaTimes == {2}        \* capped deltaTime: one frame of 1000/30 ms
FrameCap == 2            \* 1000 / 30 ms, the cap of the game loop
ColorDraw == 0           \* Math.floor(Math.random() * 10) of the blocks made in play
RestoreColorDraws == {0, 9}  \* the same draw of the blocks setState makes
MaxHighScores == 10      \* highScores.splice(10)
SavedScores == {15, 130} \* the scores handed to saveHighScore
Dates == {1, 2}          \* new Date().toISOString(): the day of the call

Max(a, b) == IF a >= b THEN a ELSE b
Min(a, b) == IF a <= b THEN a ELSE b
Abs(a) == IF a >= 0 THEN a ELSE -a

----------------------------------------------------------------------------
(* gameState.config *)

canvasWidth == 800 * UnitsPerPixel
canvasHeight == 800 * UnitsPerPixel
blockHeight == 30 * UnitsPerPixel
minBlockWidth == 40 * UnitsPerPixel
initialBlockWidth == 150 * UnitsPerPixel

----------------------------------------------------------------------------
(* levels.js *)

NumLevels == 7

\* a level that takes 4 blocks to complete
MkLevelOfFour(id, speed, wmin, wmax, thr, mech) ==
    [id |-> id, blocksToComplete |-> 4, blockSpeed |-> speed,
     blockWidthRange |-> [min |-> wmin * UnitsPerPixel, max |-> wmax * UnitsPerPixel],
     perfectThreshold |-> thr, specialMechanics |-> mech]

MkLevel(id, speed, wmin, wmax, thr, mech) ==
    [id |-> id, blocksToComplete |-> 3, blockSpeed |-> speed,
     blockWidthRange |-> [min |-> wmin * UnitsPerPixel, max |-> wmax * UnitsPerPixel],
     perfectThreshold |-> thr, specialMechanics |-> mech]

LEVELS == <<
    MkLevel(1,  400, 140, 180, 40, "tutorial"),
    MkLevel(2,  600, 120, 160, 50, "size_reduction"),
    MkLevel(3,  800, 100, 140, 55, "speed_boost"),
    MkLevel(4, 1000,  80, 120, 65, "precision_challenge"),
    MkLevel(5, 1000,  80, 120, 60, "wind_effect"),
    MkLevel(6, 1400,  60, 100, 65, "gravity_shift"),
    MkLevel(7, 1600,  50,  90, 70, "ultimate_challenge") >>

\* blocksToComplete 0 stands for null, specialMechanics "none" for undefined
getLevelConfig(levelNumber) ==
    IF levelNumber \in 1..NumLevels
    THEN LEVELS[levelNumber]
    ELSE [id |-> levelNumber, blocksToComplete |-> 0, blockSpeed |-> 1500,
          blockWidthRange |-> [min |-> 50 * UnitsPerPixel, max |-> 90 * UnitsPerPixel],
          perfectThreshold |-> 80, specialMechanics |-> "none"]

\* an endless scaling whose widths have no floor
applyEndlessScalingUnfloored(params, levelNumber) ==
    [blockSpeed |-> (params.blockSpeed * (10 + (levelNumber - 10))) \div 10,
     blockWidthRange |->
        [min |-> (params.blockWidthRange.min * (100 - (levelNumber - 10) * 2)) \div 100,
         max |-> (params.blockWidthRange.max * (100 - (levelNumber - 10) * 2)) \div 100],
     perfectThreshold |-> Min(99, params.perfectThreshold + (levelNumber - 10))]

applyEndlessScaling(params, levelNumber) ==
    [blockSpeed |-> (params.blockSpeed * (10 + (levelNumber - 10))) \div 10,
     blockWidthRange |->
        [min |-> Max(30 * UnitsPerPixel,
                     (params.blockWidthRange.min * (100 - (levelNumber - 10) * 2)) \div 100),
         max |-> Max(60 * UnitsPerPixel,
                     (params.blockWidthRange.max * (100 - (levelNumber - 10) * 2)) \div 100)],
     perfectThreshold |-> Min(99, params.perfectThreshold + (levelNumber - 10))]

calculateLevelParameters(levelNumber) ==
    LET lvl == getLevelConfig(levelNumber)
        params == [blockSpeed |-> lvl.blockSpeed,
                   blockWidthRange |-> lvl.blockWidthRange,
                   perfectThreshold |-> lvl.perfectThreshold]
    IN  IF levelNumber > 7 THEN applyEndlessScaling(params, levelNumber) ELSE params

----------------------------------------------------------------------------
(* class Block *)

\* Block.generateColor: the palette
colors == << "#FF6B6B", "#4ECDC4", "#45B7D1", "#96CEB4", "#FFEAA7",
             "#DDA0DD", "#98D8C8", "#F7DC6F", "#BB8FCE", "#85C1E9" >>

\* Block.generateColor, n = Math.floor(Math.random() * colors.length)
generateColor(n) == colors[n + 1]

\* new Block(id, width, x, y, speed, isMoving); verticalSpeed 0 stands for
\* undefined (update reads it as `this.verticalSpeed || 0`); perfectTime and
\* collapsing record whether the field has been set
Block(id, width, x, y, speed, isMoving) ==
    [id |-> id, width |-> width, x |-> x, y |-> y, speed |-> speed,
     isMoving |-> isMoving, isPlaced |-> FALSE, originalWidth |-> width,
     color |-> generateColor(ColorDraw),
     verticalSpeed |-> 0, perfectTime |-> FALSE, collapsing |-> FALSE]

\* gameState.currentBlock === null
NoBlock == Block(-1, 0, 0, 0, 0, FALSE)

\* a place() that leaves the block moving
placeMoving(b) == [b EXCEPT !.isPlaced = TRUE, !.speed = 0]

\* Block.place
place(b) == [b EXCEPT !.isMoving = FALSE, !.isPlaced = TRUE, !.speed = 0]

\* a forgiving minimum that is the floor of 20 alone
relaxedMinWidthFloor == 20 * UnitsPerPixel

\* the forgiving minimum width of Block.shrink and dropBlock
relaxedMinWidth == Max((minBlockWidth * 7) \div 10, 20 * UnitsPerPixel)

\* a shrink without the forgiving minimum
shrinkUnclamped(b, newWidth) == [b EXCEPT !.width = newWidth]

\* Block.shrink
shrink(b, newWidth) == [b EXCEPT !.width = Max(newWidth, relaxedMinWidth)]

\* an overlap that is not cut off at 0
calculateOverlapSigned(block1, block2) ==
    Min(block1.x + block1.width, block2.x + block2.width) - Max(block1.x, block2.x)

\* calculateOverlap
calculateOverlap(block1, block2) ==
    Max(0, Min(block1.x + block1.width, block2.x + block2.width)
           - Max(block1.x, block2.x))

\* (Math.random() - 0.5) * amplitude, Math.random() = n / RandomDen
Jitter(n, amplitude) == ((2 * n - RandomDen) * amplitude) \div (2 * RandomDen)

\* a vertical position that is left where the drift took it
clampYFree(y1, minY, maxY) == y1

\* Block.update: position.y kept between minY and maxY
clampY(y1, minY, maxY) == IF y1 < minY THEN minY ELSE IF y1 > maxY THEN maxY ELSE y1

\* Block.update: wind is Math.sin(Date.now() * 0.005), n the Math.random() draw
\* of the gravity shift; towerLen is gameState.tower.length
update(b, deltaTime, mech, wind, n, towerLen) ==
    LET currentSpeed == IF mech = "wind_effect" THEN b.speed + wind * 500 ELSE b.speed
        vs0 == IF mech = "gravity_shift"
               THEN b.verticalSpeed + Jitter(n, 100) ELSE b.verticalSpeed
        x1 == b.x + currentSpeed * deltaTime
        y1 == b.y + vs0 * deltaTime
        bounce == x1 <= 0 \/ x1 + b.width >= canvasWidth
        baseY == canvasHeight - (towerLen + 2) * blockHeight
        minY == baseY - blockHeight
        maxY == baseY + blockHeight
    IN  IF ~b.isMoving THEN b
        ELSE [b EXCEPT
                !.x = IF bounce THEN Max(0, Min(x1, canvasWidth - b.width)) ELSE x1,
                !.speed = IF bounce THEN -b.speed ELSE b.speed,
                !.y = clampY(y1, minY, maxY),
                !.verticalSpeed = IF y1 < minY \/ y1 > maxY THEN 0 ELSE vs0]

----------------------------------------------------------------------------
(* game logic *)

\* a block id that repeats the id of the block placed last
blockIdRepeated(placed) == placed

\* generateNewBlock: blockId
blockId(placed) == placed + 1

\* a random width measured from the top of the range
randomWidthOver(range, nw) ==
    range.max + (nw * (range.max - range.min)) \div RandomDen

\* generateNewBlock: blockWidthRange.min + Math.random() * (max - min)
randomWidth(range, nw) ==
    range.min + (nw * (range.max - range.min)) \div RandomDen

\* generateNewBlock: nw, ns1, ns2, nv are its Math.random() draws (width,
\* speed, second speed draw of the ultimate challenge, vertical speed).
\* Yields the new gameState.currentBlock and gameState.gravityShiftVerticalSpeed.
generateNewBlock(placed, inLevel, cfg, params, towerLen, gsvs, nw, ns1, ns2, nv) ==
    LET mech == cfg.specialMechanics
        range == params.blockWidthRange
        width0 == Max(minBlockWidth, randomWidth(range, nw))
        blockWidth ==
            IF mech = "size_reduction"
            THEN (width0 * Max(70, 100 - inLevel * 5)) \div 100
            ELSE IF mech = "ultimate_challenge"
            THEN (width0 * Max(80, 100 - inLevel * 3)) \div 100
            ELSE width0
        speed0 == params.blockSpeed
        blockSpeed ==
            IF mech = "speed_boost"
            THEN (IF inLevel > 0 THEN (speed0 * (10 + inLevel)) \div 10 ELSE speed0)
            ELSE IF mech = "wind_effect" THEN speed0 + Jitter(ns1, 400)
            ELSE IF mech = "gravity_shift" THEN speed0 + Jitter(ns1, 300)
            ELSE IF mech = "ultimate_challenge"
            THEN (IF inLevel > 0 THEN (speed0 * (20 + inLevel)) \div 20 ELSE speed0)
                 + Jitter(ns1, 200) + Jitter(ns2, 200)
            ELSE speed0
        newGsvs ==
            IF mech = "gravity_shift" THEN Jitter(nv, 200)
            ELSE IF mech = "ultimate_challenge" THEN Jitter(nv, 150)
            ELSE gsvs
        b == Block(blockId(placed), blockWidth, 0,
                   canvasHeight - (towerLen + 2) * blockHeight, blockSpeed, TRUE)
    IN  [block |-> IF mech \in {"gravity_shift", "ultimate_challenge"} /\ newGsvs # 0
                   THEN [b EXCEPT !.verticalSpeed = newGsvs] ELSE b,
         gsvs |-> newGsvs]

\* the base block of initGame
baseBlock ==
    place(Block(0, initialBlockWidth, (canvasWidth - initialBlockWidth) \div 2,
                canvasHeight - blockHeight, 0, FALSE))

\* a miss test that lets a zero overlap through
missedStrict(overlap) == overlap < 0

\* dropBlock: the miss test
missed(overlap) == overlap <= 0

\* a threshold block chosen as the wider of the two
thresholdBlockWider(cur, last) == IF cur.width > last.width THEN cur ELSE last

\* dropBlock: the block the perfect-alignment test measures against
thresholdBlock(cur, last) == IF cur.width < last.width THEN cur ELSE last

\* dropBlock: perfectAlignment
perfectAlignment(overlap, cur, last, threshold) ==
    overlap * 100 >= thresholdBlock(cur, last).width * threshold

\* a streak that an imperfect drop does not reset
nextStreakKept(streak, perfect) == IF perfect THEN streak + 1 ELSE streak

\* dropBlock: comboStreak after the drop
nextStreak(streak, perfect) == IF perfect THEN streak + 1 ELSE 0

\* a combo multiplier that ignores the precision challenge
comboMultiplierFlat(cfg) == 1

\* dropBlock: the combo multiplier of a perfect drop
comboMultiplier(cfg) == IF cfg.specialMechanics = "precision_challenge" THEN 2 ELSE 1

\* dropBlock: bonusPoints of a perfect drop, streak is comboStreak after ++
bonusPoints(streak, cfg) == 100 * streak * comboMultiplier(cfg)

\* base points that leave out the factor 5
basePointsFlat(lvl) == 10 + lvl

\* dropBlock: basePoints
basePoints(lvl) == 10 + lvl * 5

\* a drop that trims the block to the overlap even when it is perfect
droppedBlockTrimmed(cur, last, overlap, perfect) ==
    LET placed == [place(cur) EXCEPT !.y = last.y - blockHeight, !.verticalSpeed = 0]
    IN  IF perfect
        THEN [placed EXCEPT !.perfectTime = TRUE, !.width = Min(placed.width, overlap)]
        ELSE shrink(placed, overlap)

\* a drop that leaves the block at the height it drifted to
droppedBlockUnsnapped(cur, last, overlap, perfect) ==
    LET placed == [place(cur) EXCEPT !.verticalSpeed = 0]
    IN  IF perfect THEN [placed EXCEPT !.perfectTime = TRUE]
        ELSE shrink(placed, overlap)

\* dropBlock: the block after place(), the snap of y and the perfect or
\* imperfect branch
droppedBlock(cur, last, overlap, perfect) ==
    LET placed == [place(cur) EXCEPT !.y = last.y - blockHeight, !.verticalSpeed = 0]
    IN  IF perfect THEN [placed EXCEPT !.perfectTime = TRUE]
        ELSE shrink(placed, overlap)

\* a completion test that wants one block more
levelCompletedLate(cfg, inLevel) ==
    cfg.blocksToComplete # 0 /\ inLevel > cfg.blocksToComplete

\* dropBlock: the level-completion test
levelCompleted(cfg, inLevel) ==
    cfg.blocksToComplete # 0 /\ inLevel >= cfg.blocksToComplete

\* a final-level test that is off by one
isFinalLevelLate(lvl) == lvl = 8

\* dropBlock: the final-level test
isFinalLevel(lvl) == lvl = 7

\* a push that replaces the topmost block
pushOverTop(t, b) == Append(SubSeq(t, 1, Len(t) - 1), b)

\* dropBlock: gameState.tower.push(gameState.currentBlock)
push(t, b) == Append(t, b)

\* what dropBlock returns; returned = FALSE is the call that ends in
\* showGameCompleted and returns no result
Result(returned, success, gameOver, message, perfect, overlap, points) ==
    [returned |-> returned, success |-> success, gameOver |-> gameOver,
     message |-> message, perfectAlignment |-> perfect, overlap |-> overlap,
     points |-> points]

NoResult == Result(FALSE, FALSE, FALSE, "", FALSE, 0, 0)

\* a no-block result that reports success
noBlockResultSuccess == Result(TRUE, TRUE, FALSE, "No block to drop", FALSE, 0, 0)

\* dropBlock: { success: false, message: 'No block to drop' }
noBlockResult == Result(TRUE, FALSE, FALSE, "No block to drop", FALSE, 0, 0)

\* checkTowerStability: twice the summed offset of adjacent block centres
totalOffset2(t) ==
    LET RECURSIVE Sum(_)
        Sum(i) == IF i < 2 THEN 0
                  ELSE Sum(i - 1)
                       + Abs((2 * t[i].x + t[i].width) - (2 * t[i - 1].x + t[i - 1].width))
    IN  Sum(Len(t))

\* checkTowerStability: 1000 * maxOffset, with
\* maxOffset = canvasWidth * 0.6 * max(0.8, 1 - (level - 1) * 0.02)
maxOffset1000(lvl) == canvasWidth * 6 * Max(80, 100 - (lvl - 1) * 2)

\* a stability check that collapses a tower at the threshold itself
towerCollapsesAtThreshold(t, lvl) ==
    /\ Len(t) >= 3
    /\ totalOffset2(t) * 1000 >= 2 * maxOffset1000(lvl)

\* a stability check that starts at two blocks
towerCollapsesFromTwo(t, lvl) ==
    /\ Len(t) >= 2
    /\ totalOffset2(t) * 1000 > 2 * maxOffset1000(lvl)

\* checkTowerStability: at least 3 blocks and totalOffset > maxOffset
towerCollapses(t, lvl) ==
    /\ Len(t) >= 3
    /\ totalOffset2(t) * 1000 > 2 * maxOffset1000(lvl)

\* triggerTowerCollapse: every tower block is flagged
collapsed(t) == [i \in 1..Len(t) |-> [t[i] EXCEPT !.collapsing = TRUE]]

----------------------------------------------------------------------------
(* window.localStorage *)

\* getItem(key) === null
NoItem == [kind |-> "null"]

\* the storage of a browser that has not run the game
NoItems == [highScores |-> NoItem, gamesPlayed |-> NoItem, currentGame |-> NoItem]

\* JSON.stringify(value): a text that JSON.parse turns back into value
JSONstringify(value) == [kind |-> "json", value |-> value]

\* a stored string of characters, such as the text of a number
CharsItem(chars) == [kind |-> "chars", value |-> chars]

\* NaN, the value of parseInt on a text that does not start with a digit
NaN == -1

DigitChars == <<"0", "1", "2", "3", "4", "5", "6", "7", "8", "9">>

\* Number.prototype.toString: the decimal digits of n, "NaN" for NaN
toString(n) ==
    LET RECURSIVE Digits(_)
        Digits(k) == IF k < 10 THEN <<DigitChars[k + 1]>>
                     ELSE Append(Digits(k \div 10), DigitChars[(k % 10) + 1])
    IN  IF n = NaN THEN <<"N", "a", "N">> ELSE Digits(n)

\* parseInt(text): the value of the leading decimal digits, NaN without any
parseInt(chars) ==
    LET DigitValue(c) == CHOOSE d \in 0..9 : DigitChars[d + 1] = c
        IsDigit(c) == \E d \in 0..9 : DigitChars[d + 1] = c
        RECURSIVE Value(_, _)
        Value(i, acc) == IF i > Len(chars) \/ ~IsDigit(chars[i]) THEN acc
                         ELSE Value(i + 1, acc * 10 + DigitValue(chars[i]))
    IN  IF chars = <<>> \/ ~IsDigit(chars[1]) THEN NaN ELSE Value(1, 0)

\* localStorage.getItem(key) || fallback
getItemOr(item, fallback) == IF item.kind = "null" THEN fallback ELSE item

\* JSON.parse(text) throws a SyntaxError on a text that is not JSON
parses(text) == text.kind = "json"

\* highScores.sort((a, b) => b.score - a.score): the stable sort by
\* descending score
sortByScore(list) ==
    LET Insert(sorted, e) ==
            LET k == Cardinality({i \in 1..Len(sorted) : sorted[i].score >= e.score})
            IN  SubSeq(sorted, 1, k) \o <<e>> \o SubSeq(sorted, k + 1, Len(sorted))
        RECURSIVE Sort(_)
        Sort(n) == IF n = 0 THEN <<>> ELSE Insert(Sort(n - 1), list[n])
    IN  Sort(Len(list))

\* a list cut after eleven entries
spliceEleven(list) == SubSeq(list, 1, Min(Len(list), MaxHighScores + 1))

\* highScores.splice(10)
splice(list) == SubSeq(list, 1, Min(Len(list), MaxHighScores))

\* gamesPlayed + 1, NaN + 1 being NaN
plusOne(n) == IF n = NaN THEN NaN ELSE n + 1

----------------------------------------------------------------------------
(* the state after the script is loaded, before PhysicsStackTowerGame.init *)

InitPage ==
    /\ tower = <<>>
    /\ currentBlock = NoBlock
    /\ score = 0
    /\ level = 1
    /\ isActive = FALSE
    /\ isPaused = FALSE
    /\ blocksPlaced = 0
    /\ blocksInCurrentLevel = 0
    /\ perfectThreshold = 80
    /\ comboStreak = 0
    /\ currentLevelConfig = getLevelConfig(1)
    /\ currentLevelParams = calculateLevelParameters(1)
    /\ gravityShiftVerticalSpeed = 0
    /\ lastResult = NoResult
    /\ startLevel = 0
    /\ frames = 0
    /\ popupTimers = 0
    /\ closeTimers = 0
    /\ gameOverTimers = 0
    /\ drops = 0
    /\ lastTime = 0
    /\ thrown = "none"
    /\ pauseOverlay = FALSE
    /\ gameOverOverlay = FALSE

\* the page loaded in a browser that has not stored anything for the game
Init == InitPage /\ localStorage = NoItems

\* initGame(lvl): what it assigns to gameState
initGame(lvl) ==
       \E nw \in WidthDraws, ns1, ns2 \in SpeedDraws, nv \in VerticalDraws :
         LET cfg == getLevelConfig(lvl)
             params == calculateLevelParameters(lvl)
             gen == generateNewBlock(0, 0, cfg, params, 1,
                                     gravityShiftVerticalSpeed, nw, ns1, ns2, nv)
         IN  /\ tower' = <<baseBlock>>
             /\ score' = 0
             /\ level' = lvl
             /\ blocksPlaced' = 0
             /\ blocksInCurrentLevel' = 0
             /\ comboStreak' = 0
             /\ isActive' = TRUE
             /\ isPaused' = FALSE
             /\ currentLevelConfig' = cfg
             /\ currentLevelParams' = params
             /\ perfectThreshold' = params.perfectThreshold
             /\ currentBlock' = gen.block
             /\ gravityShiftVerticalSpeed' = gen.gsvs

\* the first initGame(lvl) call: by PhysicsStackTowerGame.init with level 1,
\* or with the level the session is to start at
InitGame(lvl) ==
    /\ UNCHANGED <<envVars, overlayVars>>
    /\ startLevel = 0
    /\ initGame(lvl)
    /\ startLevel' = lvl
    /\ frames' = 0
    /\ UNCHANGED <<lastResult, timerVars, drops>>

\* dropBlock(), with showLevelComplete and showGameCompleted.  The rendering
\* hints it sets (perfectDrop, missing) and its sounds are left out; maxDrops
\* is the number of drops explored that place a block or end the session.
dropBlock(maxDrops) ==
    /\ UNCHANGED <<startLevel, closeTimers, envVars, overlayVars>>
    /\ IF currentBlock = NoBlock \/ ~currentBlock.isMoving
       THEN /\ lastResult' = noBlockResult
            /\ UNCHANGED <<gameVars, frames, popupTimers, drops>>
       ELSE
       LET cur == currentBlock
           last == tower[Len(tower)]
           overlap == calculateOverlap(cur, last)
       IN
       IF missed(overlap)
       THEN /\ drops < maxDrops
            /\ drops' = drops + 1
            /\ isActive' = FALSE
            /\ lastResult' = Result(TRUE, FALSE, TRUE, "Block missed the tower!", FALSE, 0, 0)
            /\ UNCHANGED <<tower, currentBlock, score, level, isPaused, blocksPlaced,
                           blocksInCurrentLevel, perfectThreshold, comboStreak,
                           currentLevelConfig, currentLevelParams,
                           gravityShiftVerticalSpeed, frames, popupTimers>>
       ELSE
       LET perfect == perfectAlignment(overlap, cur, last, perfectThreshold)
           blk == droppedBlock(cur, last, overlap, perfect)
           streak == nextStreak(comboStreak, perfect)
           bonus == IF perfect THEN bonusPoints(streak, currentLevelConfig) ELSE 0
       IN
       IF ~perfect /\ blk.width < relaxedMinWidth
       THEN /\ drops < maxDrops
            /\ drops' = drops + 1
            /\ isActive' = FALSE
            /\ currentBlock' = blk
            /\ comboStreak' = streak
            /\ lastResult' = Result(TRUE, FALSE, TRUE, "Block too small to continue!",
                                    FALSE, 0, 0)
            /\ UNCHANGED <<tower, score, level, isPaused, blocksPlaced,
                           blocksInCurrentLevel, perfectThreshold,
                           currentLevelConfig, currentLevelParams,
                           gravityShiftVerticalSpeed, frames, popupTimers>>
       ELSE
       LET inLevel == blocksInCurrentLevel + 1
           base == basePoints(level)
           completed == levelCompleted(currentLevelConfig, inLevel)
       IN
       /\ drops < maxDrops
       /\ drops' = drops + 1
       /\ tower' = push(tower, blk)
       /\ blocksPlaced' = blocksPlaced + 1
       /\ comboStreak' = streak
       /\ score' = score + bonus + base
       /\ IF completed /\ isFinalLevel(level)
          THEN \* showGameCompleted(); return;
               /\ isPaused' = TRUE
               /\ isActive' = FALSE
               /\ blocksInCurrentLevel' = inLevel
               /\ currentBlock' = blk
               /\ lastResult' = NoResult
               /\ UNCHANGED <<level, perfectThreshold, currentLevelConfig,
                              currentLevelParams, gravityShiftVerticalSpeed,
                              frames, popupTimers>>
          ELSE
          LET newLevel == IF completed THEN level + 1 ELSE level
              newInLevel == IF completed THEN 0 ELSE inLevel
              cfg == IF completed THEN getLevelConfig(newLevel) ELSE currentLevelConfig
              params == IF completed THEN calculateLevelParameters(newLevel)
                        ELSE currentLevelParams
          IN
          /\ level' = newLevel
          /\ blocksInCurrentLevel' = newInLevel
          /\ currentLevelConfig' = cfg
          /\ currentLevelParams' = params
          /\ perfectThreshold' = IF completed THEN params.perfectThreshold
                                 ELSE perfectThreshold
          \* showLevelComplete pauses and starts the popup's 2000 ms timer
          /\ isPaused' = IF completed THEN TRUE ELSE isPaused
          /\ popupTimers' = IF completed THEN popupTimers + 1 ELSE popupTimers
          /\ isActive' = isActive
          /\ \E nw \in WidthDraws, ns1, ns2 \in SpeedDraws, nv \in VerticalDraws :
               LET gen == generateNewBlock(blocksPlaced + 1, newInLevel, cfg, params,
                                           Len(tower) + 1, gravityShiftVerticalSpeed,
                                           nw, ns1, ns2, nv)
               IN  /\ currentBlock' = gen.block
                   /\ gravityShiftVerticalSpeed' = gen.gsvs
          /\ frames' = 0
          /\ lastResult' = Result(TRUE, TRUE, FALSE, "", perfect, overlap,
                                  base + (IF perfect THEN 100 * streak ELSE 0))

\* a dropBlock() call outside the click and key handlers
DropBlock ==
    /\ dropBlock(MaxDrops)
    /\ UNCHANGED gameOverTimers

\* a tick that runs while the game is paused
tickSkippedInactive(active, paused) == ~active

\* updateGame: the test of its early return
tickSkipped(active, paused) == ~active \/ paused

\* updateGame(deltaTime): Block.update, then checkTowerStability; maxFrames
\* is the number of frames explored with the block over the tower top
updateGameWithin(deltaTime, maxFrames) ==
    /\ UNCHANGED <<score, level, isPaused, blocksPlaced, blocksInCurrentLevel,
                   perfectThreshold, comboStreak, currentLevelConfig,
                   currentLevelParams, gravityShiftVerticalSpeed, lastResult,
                   startLevel, popupTimers, closeTimers, drops>>
    /\ IF tickSkipped(isActive, isPaused)
       THEN UNCHANGED <<tower, currentBlock, isActive, frames, gameOverTimers>>
       ELSE /\ frames < maxFrames
            /\ \E wind \in WindSines, n \in FrameDraws :
                 currentBlock' =
                    IF currentBlock # NoBlock /\ currentBlock.isMoving
                    THEN update(currentBlock, deltaTime,
                                currentLevelConfig.specialMechanics, wind, n, Len(tower))
                    ELSE currentBlock
            /\ frames' = IF calculateOverlap(currentBlock', tower[Len(tower)]) > 0
                         THEN frames + 1 ELSE frames
            /\ IF towerCollapses(tower, level)
               THEN /\ isActive' = FALSE
                    /\ tower' = collapsed(tower)
                    /\ gameOverTimers' = gameOverTimers + 1
               ELSE UNCHANGED <<isActive, tower, gameOverTimers>>

\* updateGame(deltaTime)
updateGame(deltaTime) == updateGameWithin(deltaTime, MaxFrames)

\* a cap that lets every deltaTime through
cappedDeltaTimeUncapped(deltaTime) == deltaTime

\* gameLoop: Math.min(deltaTime, 1000 / 30)
cappedDeltaTime(deltaTime) == Min(deltaTime, FrameCap)

\* an updateGame(deltaTime) call with deltaTime one capped frame
UpdateGame(deltaTime) ==
    /\ updateGame(deltaTime)
    /\ UNCHANGED <<envVars, overlayVars>>

\* gameLoop(currentTime): the requestAnimationFrame callback; the browser
\* hands it a timestamp later than the one of the frame before
GameLoop(currentTime) ==
    /\ currentTime > lastTime
    /\ lastTime' = currentTime
    /\ updateGame(cappedDeltaTime(currentTime - lastTime))
    /\ UNCHANGED <<localStorage, thrown, overlayVars>>

\* showLevelComplete: the popup's 2000 ms timer starts its 300 ms timer
PopupTimer ==
    /\ UNCHANGED <<envVars, overlayVars>>
    /\ popupTimers > 0
    /\ popupTimers' = popupTimers - 1
    /\ closeTimers' = closeTimers + 1
    /\ UNCHANGED <<gameVars, lastResult, startLevel, frames, gameOverTimers,
                   drops>>

\* a popup that leaves the pause as it finds it
pausedAfterPopupKept(paused) == paused

\* showLevelComplete, the 300 ms timer: gameState.isPaused = false
pausedAfterPopup(paused) == FALSE

\* showLevelComplete: the 300 ms timer removes the popup and resumes the game
CloseTimer ==
    /\ UNCHANGED <<envVars, overlayVars>>
    /\ closeTimers > 0
    /\ closeTimers' = closeTimers - 1
    /\ isPaused' = pausedAfterPopup(isPaused)
    /\ UNCHANGED <<tower, currentBlock, score, level, isActive, blocksPlaced,
                   blocksInCurrentLevel, perfectThreshold, comboStreak,
                   currentLevelConfig, currentLevelParams, gravityShiftVerticalSpeed,
                   lastResult, startLevel, frames, popupTimers, gameOverTimers,
                   drops>>

\* a drop handler that lets a finished session drop
dropAllowedUnpaused(active, paused) == ~paused

\* handleCanvasClick and the Space key: the test that guards dropBlock()
dropAllowed(active, paused) == active /\ ~paused

\* handleCanvasClick, handleCanvasTouch and the Space case of handleKeyDown;
\* maxDrops as in dropBlock
handleCanvasClick(maxDrops) ==
    IF dropAllowed(isActive, isPaused)
    THEN /\ dropBlock(maxDrops)
         \* result.success, else result.gameOver: setTimeout(showGameOver, 500)
         /\ IF lastResult'.returned /\ ~lastResult'.success /\ lastResult'.gameOver
            THEN gameOverTimers' = gameOverTimers + 1
            ELSE UNCHANGED gameOverTimers
    ELSE UNCHANGED vars

\* a click, a touch or the Space key
HandleCanvasClick == handleCanvasClick(MaxDrops)

\* PhysicsStackTowerGame.pause(): pauseGame()
PauseGame ==
    /\ UNCHANGED <<envVars, gameOverOverlay>>
    /\ isPaused' = TRUE
    /\ pauseOverlay' = TRUE
    /\ UNCHANGED <<tower, currentBlock, score, level, isActive, blocksPlaced,
                   blocksInCurrentLevel, perfectThreshold, comboStreak,
                   currentLevelConfig, currentLevelParams, gravityShiftVerticalSpeed,
                   lastResult, startLevel, frames, timerVars, drops>>

\* a start() that never resumes
startResumesNever(paused) == FALSE

\* PhysicsStackTowerGame.start(): the test that chooses resumeGame()
startResumes(paused) == paused

\* PhysicsStackTowerGame.start(): resumeGame() when paused, else
\* initGame(gameState.level)
Start ==
    IF startResumes(isPaused)
    THEN /\ isPaused' = FALSE
         /\ pauseOverlay' = FALSE
         /\ UNCHANGED <<tower, currentBlock, score, level, isActive, blocksPlaced,
                        blocksInCurrentLevel, perfectThreshold, comboStreak,
                        currentLevelConfig, currentLevelParams,
                        gravityShiftVerticalSpeed, lastResult, startLevel, frames,
                        timerVars, drops, envVars, gameOverOverlay>>
    ELSE /\ initGame(level)
         /\ startLevel' = level
         /\ frames' = 0
         /\ lastResult' = NoResult
         /\ UNCHANGED <<timerVars, drops, envVars, overlayVars>>

\* a reset that restarts the level the session is at
resetLevelKept(lvl) == lvl

\* resetGame: the level it hands to initGame
resetLevel(lvl) == 1

\* resetGame(): hideAllOverlays, initGame(1), then isActive and isPaused
\* are set again to the values initGame gave them
ResetGame ==
    /\ UNCHANGED envVars
    /\ pauseOverlay' = FALSE
    /\ gameOverOverlay' = FALSE
    /\ initGame(resetLevel(level))
    /\ startLevel' = resetLevel(level)
    /\ frames' = 0
    /\ lastResult' = NoResult
    /\ UNCHANGED <<timerVars, drops>>

Next ==
    \/ \E lvl \in 1..NumLevels : InitGame(lvl)
    \/ DropBlock
    \/ \E deltaTime \in DeltaTimes : UpdateGame(deltaTime)
    \/ PopupTimer
    \/ CloseTimer

\* the functions of the drop core, called in any state
Spec == Init /\ [][Next]_vars

\* the page's game loop: requestAnimationFrame calls gameLoop with
\* increasing timestamps while the buttons pause, resume and restart
NextLoop ==
    \/ \E lvl \in 1..NumLevels : InitGame(lvl)
    \/ \E currentTime \in 1..MaxTime : GameLoop(currentTime)
    \/ PauseGame
    \/ Start

SpecLoop == Init /\ [][NextLoop]_vars

\* the levels a session of SpecGame starts at: level 1, where
\* PhysicsStackTowerGame.init starts, and the last level
GameStartLevels == {1, NumLevels}

\* the game as the page drives it: dropBlock() is reached through its
\* handlers only, the buttons and keys pause, resume, restart and reset
NextGame ==
    \/ \E lvl \in GameStartLevels : InitGame(lvl)
    \/ HandleCanvasClick
    \/ \E deltaTime \in DeltaTimes : UpdateGame(deltaTime)
    \/ PopupTimer
    \/ CloseTimer
    \/ PauseGame
    \/ Start
    \/ ResetGame

SpecGame == Init /\ [][NextGame]_vars

----------------------------------------------------------------------------
(* PhysicsStackTowerGame.setState: a session restored from a saved state *)

\* the levels of the saved states: the first two, and two past the level
\* where max(0.8, 1 - (level - 1) * 0.02) reaches 0.8
SavedLevels == {1, 2, 11, 12}

\* the blocks of the saved towers, with centres at 75, 171, 315, 555 and
\* 725 pixels
SavedShapes ==
    { [x |-> 0, width |-> 150 * UnitsPerPixel],
      [x |-> 157 * UnitsPerPixel, width |-> 28 * UnitsPerPixel],
      [x |-> 240 * UnitsPerPixel, width |-> 150 * UnitsPerPixel],
      [x |-> 522 * UnitsPerPixel, width |-> 66 * UnitsPerPixel],
      [x |-> 650 * UnitsPerPixel, width |-> 150 * UnitsPerPixel] }

\* the tower of a saved state, as getState() writes it
SavedTowers ==
    UNION { [1..n -> SavedShapes] : n \in 1..MaxSavedBlocks }

\* block i of a saved tower, lying on row i
savedShapeBlock(shape, i) ==
    [id |-> i - 1, width |-> shape.width, x |-> shape.x,
     y |-> canvasHeight - i * blockHeight, color |-> colors[2], isPlaced |-> TRUE]

\* the moving block of a saved state
savedMovingBlock(towerLen) ==
    [id |-> towerLen, width |-> 100 * UnitsPerPixel, x |-> 0,
     y |-> canvasHeight - (towerLen + 2) * blockHeight, speed |-> 1600,
     isMoving |-> TRUE, color |-> colors[3]]

\* getState: an entry of tower
savedTowerBlock(b) ==
    [id |-> b.id, width |-> b.width, x |-> b.x, y |-> b.y, color |-> b.color,
     isPlaced |-> b.isPlaced]

\* getState: currentBlock
savedCurrentBlock(b) ==
    [id |-> b.id, width |-> b.width, x |-> b.x, y |-> b.y, speed |-> b.speed,
     isMoving |-> b.isMoving, color |-> b.color]

\* currentBlock: null in a saved state
NullBlock == savedCurrentBlock(NoBlock)

\* PhysicsStackTowerGame.getState() without speedMultiplier, which the game
\* never changes
getState ==
    [level |-> level, score |-> score, blocksPlaced |-> blocksPlaced,
     blocksInCurrentLevel |-> blocksInCurrentLevel, comboStreak |-> comboStreak,
     isActive |-> isActive, isPaused |-> isPaused,
     tower |-> [i \in 1..Len(tower) |-> savedTowerBlock(tower[i])],
     currentBlock |-> IF currentBlock = NoBlock THEN NullBlock
                      ELSE savedCurrentBlock(currentBlock)]

\* a saved state built from shapes; withBlock is state.currentBlock being set
savedState(lvl, shapes, active, paused, withBlock) ==
    [level |-> lvl, score |-> 0, blocksPlaced |-> Len(shapes) - 1,
     blocksInCurrentLevel |-> 0, comboStreak |-> 0,
     isActive |-> active, isPaused |-> paused,
     tower |-> [i \in 1..Len(shapes) |-> savedShapeBlock(shapes[i], i)],
     currentBlock |-> IF withBlock THEN savedMovingBlock(Len(shapes)) ELSE NullBlock]

\* value || fallback on numbers
orElse(value, fallback) == IF value = 0 THEN fallback ELSE value

\* a restored tower block that keeps the colour its constructor drew
restoredBlockRecoloured(blockData, n) ==
    [Block(blockData.id, blockData.width, blockData.x, blockData.y, 0, FALSE)
        EXCEPT !.color = generateColor(n), !.isPlaced = blockData.isPlaced]

\* setState: new Block(id, width, position.x, position.y, 0, false), whose
\* constructor draws colour n, then color and isPlaced
restoredBlock(blockData, n) ==
    [[Block(blockData.id, blockData.width, blockData.x, blockData.y, 0, FALSE)
        EXCEPT !.color = generateColor(n)]
        EXCEPT !.color = blockData.color, !.isPlaced = blockData.isPlaced]

\* setState: new Block(id, width, position.x, position.y, speed, isMoving),
\* whose constructor draws colour n, then color
restoredCurrentBlock(blockData, n) ==
    [[Block(blockData.id, blockData.width, blockData.x, blockData.y,
            blockData.speed, blockData.isMoving)
        EXCEPT !.color = generateColor(n)]
        EXCEPT !.color = blockData.color]

\* PhysicsStackTowerGame.setState(state): what it assigns to gameState
setState(state, n) ==
    /\ level' = orElse(state.level, 1)
    /\ score' = orElse(state.score, 0)
    /\ blocksPlaced' = orElse(state.blocksPlaced, 0)
    /\ blocksInCurrentLevel' = orElse(state.blocksInCurrentLevel, 0)
    /\ comboStreak' = orElse(state.comboStreak, 0)
    /\ isActive' = state.isActive
    /\ isPaused' = state.isPaused
    /\ tower' = [i \in 1..Len(state.tower) |-> restoredBlock(state.tower[i], n)]
    /\ currentBlock' = IF state.currentBlock # NullBlock
                       THEN restoredCurrentBlock(state.currentBlock, n)
                       ELSE currentBlock
    /\ UNCHANGED <<perfectThreshold, currentLevelConfig, currentLevelParams,
                   gravityShiftVerticalSpeed, lastResult, startLevel, frames,
                   timerVars, drops, envVars, overlayVars>>

\* PhysicsStackTowerGame.setState(state), called on the freshly loaded page
\* with a saved state
SetState(lvl, shapes, active, paused, withBlock) ==
    /\ tower = <<>>
    /\ \E n \in RestoreColorDraws :
          setState(savedState(lvl, shapes, active, paused, withBlock), n)

\* PhysicsStackTowerGame.setState(PhysicsStackTowerGame.getState())
SaveAndRestore ==
    /\ startLevel # 0
    /\ \E n \in RestoreColorDraws : setState(getState, n)

NextRestored ==
    \/ \E lvl \in SavedLevels, shapes \in SavedTowers, active, paused, withBlock \in BOOLEAN :
          SetState(lvl, shapes, active, paused, withBlock)
    \/ \E deltaTime \in DeltaTimes : UpdateGame(deltaTime)

\* the game loop over sessions restored by setState
SpecRestored == Init /\ [][NextRestored]_vars

\* the levels beyond the last entry of LEVELS that are explored
EndlessLevels == (NumLevels + 1)..MaxEndlessLevel

\* a saved state of an endless level is restored on the freshly loaded page
\* and start() begins the level it names
NextEndless ==
    \/ \E lvl \in EndlessLevels, shapes \in {t \in SavedTowers : Len(t) = 1} :
          SetState(lvl, shapes, FALSE, FALSE, FALSE)
    \/ Start
    \/ \E deltaTime \in DeltaTimes : UpdateGame(deltaTime)

\* sessions of the endless levels
SpecEndless == Init /\ [][NextEndless]_vars

\* the levels a session of SpecSaved starts at: the first, and the last,
\* whose blocks carry a vertical speed
SavedStartLevels == {1, NumLevels}

\* sessions that are played, saved with getState and restored with setState
NextSaved ==
    \/ \E lvl \in SavedStartLevels : InitGame(lvl)
    \/ HandleCanvasClick
    \/ \E deltaTime \in DeltaTimes : UpdateGame(deltaTime)
    \/ PopupTimer
    \/ CloseTimer
    \/ SaveAndRestore

SpecSaved == Init /\ [][NextSaved]_vars

----------------------------------------------------------------------------
(* high scores *)

\* saveHighScore(score): date is new Date().toISOString(), writable whether
\* localStorage.setItem succeeds (it throws when the quota is exceeded)
saveHighScore(sc, date, writable) ==
    LET text == getItemOr(localStorage.highScores, JSONstringify(<<>>))
        entry == [score |-> sc, level |-> level, blocks |-> blocksPlaced, date |-> date]
        played == parseInt(getItemOr(localStorage.gamesPlayed, CharsItem(<<"0">>)).value)
    IN  /\ played < MaxGames
        /\ IF ~parses(text)
           THEN thrown' = "SyntaxError" /\ UNCHANGED localStorage
           ELSE IF ~writable
           THEN thrown' = "QuotaExceededError" /\ UNCHANGED localStorage
           ELSE /\ thrown' = "none"
                /\ localStorage' =
                      [localStorage EXCEPT
                         !.highScores =
                             JSONstringify(splice(sortByScore(Append(text.value, entry)))),
                         !.gamesPlayed = CharsItem(toString(plusOne(played)))]

\* a saveHighScore(score) call on its own
SaveHighScore(sc, date, writable) ==
    /\ saveHighScore(sc, date, writable)
    /\ UNCHANGED <<gameVars, lastResult, startLevel, frames, timerVars, drops,
                   lastTime, overlayVars>>

\* showGameOver(), run by a timer that a failed drop (500 ms) or a collapse
\* (1000 ms) has set: it shows the game-over overlay and saves the score
ShowGameOver(date, writable) ==
    /\ gameOverTimers > 0
    /\ gameOverTimers' = gameOverTimers - 1
    /\ gameOverOverlay' = TRUE
    /\ saveHighScore(score, date, writable)
    /\ UNCHANGED <<gameVars, lastResult, startLevel, frames, popupTimers,
                   closeTimers, drops, lastTime, pauseOverlay>>

\* saveHighScore called again and again on a storage that works
NextScores ==
    \E sc \in SavedScores, date \in Dates : SaveHighScore(sc, date, TRUE)

SpecScores == Init /\ [][NextScores]_vars

\* a stored text that is neither JSON nor a number
GarbageItem == CharsItem(<<"x">>)

\* what the browser may hold under the game's keys when the page is loaded
StoredAtLoad ==
    { [NoItems EXCEPT !.highScores = hs, !.gamesPlayed = gp] :
        hs \in {NoItem, GarbageItem, JSONstringify(<<>>)},
        gp \in {NoItem, GarbageItem} }

InitStored == InitPage /\ localStorage \in StoredAtLoad

\* loadHighScores()
LoadHighScores ==
    /\ thrown' = IF parses(getItemOr(localStorage.highScores, JSONstringify(<<>>)))
                 THEN "none" ELSE "SyntaxError"
    /\ UNCHANGED <<gameVars, lastResult, startLevel, frames, timerVars, drops,
                   lastTime, localStorage, overlayVars>>

\* loadGameStats() of the main menu: JSON.parse of the stored list, then
\* parseInt of the stored counter, then the texts of the menu
LoadGameStats ==
    /\ thrown' = IF parses(getItemOr(localStorage.highScores, JSONstringify(<<>>)))
                 THEN "none" ELSE "SyntaxError"
    /\ UNCHANGED <<gameVars, lastResult, startLevel, frames, timerVars, drops,
                   lastTime, localStorage, overlayVars>>

\* StorageManager.save(key, data): try { setItem(key, JSON.stringify(data)) }
\* catch { return false }; yields the items after the call
StorageManagerSave(items, data, writable) ==
    IF writable THEN [items EXCEPT !.currentGame = JSONstringify(data)] ELSE items

\* handleBeforeUnload: saves getState() of a running session
HandleBeforeUnload(writable) ==
    /\ UNCHANGED <<gameVars, lastResult, startLevel, frames, timerVars, drops,
                   lastTime, overlayVars>>
    /\ IF isActive /\ ~isPaused
       THEN /\ localStorage' = StorageManagerSave(localStorage, getState, writable)
            /\ thrown' = "none"
       ELSE UNCHANGED <<localStorage, thrown>>

\* the storage calls of the game and of the main menu, on a storage that
\* may hold anything and may refuse a write
NextStorage ==
    \/ InitGame(1)
    \/ PauseGame
    \/ \E sc \in SavedScores, writable \in BOOLEAN : SaveHighScore(sc, 1, writable)
    \/ LoadHighScores
    \/ LoadGameStats
    \/ \E writable \in BOOLEAN : HandleBeforeUnload(writable)

SpecStorage == InitStored /\ [][NextStorage]_vars

\* a session played from level 1 with no input but drops: setTimeout runs
\* the callback of every timer that has been set
NextAdvance ==
    \/ InitGame(1)
    \/ HandleCanvasClick
    \/ \E deltaTime \in DeltaTimes : UpdateGame(deltaTime)
    \/ PopupTimer
    \/ CloseTimer

SpecAdvance ==
    Init /\ [][NextAdvance]_vars /\ WF_vars(PopupTimer) /\ WF_vars(CloseTimer)

\* the callback of a game-over timer runs; the storage may refuse the write
GameOverTimer == \E writable \in BOOLEAN : ShowGameOver(1, writable)

\* twice the distance of the centre of the moving block from the centre of
\* the tower top
centreOffset2 ==
    Abs((2 * currentBlock.x + currentBlock.width)
        - (2 * tower[Len(tower)].x + tower[Len(tower)].width))

\* the distance the moving block covers in one frame
frameStep ==
    Abs(IF currentLevelConfig.specialMechanics = "wind_effect"
        THEN currentBlock.speed + 500 ELSE currentBlock.speed) * FrameCap

\* the frame has brought the moving block as near to the centre of the
\* tower top as a frame can
aligned ==
    /\ currentBlock # NoBlock /\ currentBlock.isMoving
    /\ centreOffset2 <= frameStep

\* the click of a player who clicks in the frame that aligns the block or
\* one frame early, or by mistake as soon as the block appears
RunClick ==
    /\ currentBlock # NoBlock /\ currentBlock.isMoving
    /\ centreOffset2 <= 2 * frameStep \/ currentBlock.x = 0
    /\ handleCanvasClick(MaxRunDrops)

\* a tick of the long session: the block is not aligned yet
RunFrame(deltaTime) ==
    /\ ~aligned
    /\ updateGameWithin(deltaTime, MaxRunFrames)
    /\ UNCHANGED <<envVars, overlayVars>>

\* a session played from level 1 through all levels by a player with good
\* timing
NextRun ==
    \/ InitGame(1)
    \/ RunClick
    \/ \E deltaTime \in DeltaTimes : RunFrame(deltaTime)
    \/ PopupTimer
    \/ CloseTimer

SpecRun == Init /\ [][NextRun]_vars

\* sessions that are played to their end and reset, with the timers that
\* show the game-over screen, on a storage that may hold anything and may
\* refuse a write
NextOver ==
    \/ InitGame(1)
    \/ HandleCanvasClick
    \/ \E deltaTime \in DeltaTimes : UpdateGame(deltaTime)
    \/ PopupTimer
    \/ CloseTimer
    \/ ResetGame
    \/ GameOverTimer

\* setTimeout runs the callback of every game-over timer that has been set
SpecOver == InitStored /\ [][NextOver]_vars /\ WF_vars(GameOverTimer)

----------------------------------------------------------------------------
(* Properties of the drop *)

\* the topmost tower block
Top == tower[Len(tower)]

\* there is a moving block to drop
Moving == currentBlock # NoBlock /\ currentBlock.isMoving

\* the overlap of the moving block with the topmost tower block
Overlap == calculateOverlap(currentBlock, Top)

\* a dropBlock() call with a moving block that overlaps the tower top
HitDrop == DropBlock /\ Moving /\ Overlap > 0

\* overlap >= w * perfectThreshold, w the width of the narrower block
MeetsThreshold ==
    Overlap * 100 >= Min(currentBlock.width, Top.width) * perfectThreshold

\* max(minBlockWidth * 0.7, 20)
RelaxedMinimum == Max((40 * UnitsPerPixel * 7) \div 10, 20 * UnitsPerPixel)

\* C1: a drop of a moving block whose overlap with the tower top is <= 0 ends
\* the session and reports gameOver, and leaves tower, score, comboStreak,
\* level, blocksPlaced and blocksInCurrentLevel unchanged
C1_MissEndsSession ==
    [][(DropBlock /\ Moving /\ Overlap <= 0)
        => /\ isActive' = FALSE
           /\ lastResult'.returned /\ lastResult'.gameOver /\ ~lastResult'.success
           /\ UNCHANGED <<tower, score, comboStreak, level, blocksPlaced,
                          blocksInCurrentLevel>>]_vars

C1_Witness ==
    /\ lastResult.message = "Block missed the tower!"
    /\ ~isActive
    /\ Moving /\ Overlap = 0

\* C2: a drop with positive overlap is classified perfect exactly when
\* overlap >= w * perfectThreshold, w the width of the narrower of the moving
\* block and the tower top; with w = 100 and threshold 0.8, overlap 80 is
\* perfect and overlap 79 is not
C2_PerfectIffThreshold ==
    [][HitDrop
        => /\ Len(tower') = Len(tower) + 1
           /\ tower'[Len(tower')].perfectTime <=> MeetsThreshold
           /\ perfectAlignment(80, [width |-> 100], [width |-> 100], 80)
           /\ ~perfectAlignment(79, [width |-> 100], [width |-> 100], 80)]_vars

\* a perfect drop on a narrower tower top that the wider block would fail,
\* and an imperfect one
C2_Witness ==
    /\ Len(tower) >= 3
    /\ tower[Len(tower)].perfectTime
    /\ tower[Len(tower)].width > tower[Len(tower) - 1].width
    /\ calculateOverlap(tower[Len(tower)], tower[Len(tower) - 1]) * 100
         < tower[Len(tower)].width * LEVELS[startLevel].perfectThreshold
    /\ ~tower[Len(tower) - 1].perfectTime

\* C3: a non-perfect drop sets the block's width to
\* max(overlap, max(minBlockWidth * 0.7, 20)), which is never more than the
\* width before the drop and never less than max(minBlockWidth * 0.7, 20)
C3_ShrinkBounds ==
    /\ [][(HitDrop /\ ~MeetsThreshold)
           => /\ Len(tower') = Len(tower) + 1
              /\ tower'[Len(tower')].width = Max(Overlap, RelaxedMinimum)
              /\ tower'[Len(tower')].width <= currentBlock.width
              /\ tower'[Len(tower')].width >= RelaxedMinimum]_vars
    \* every block generateNewBlock makes is at least that wide, for the
    \* smallest width draw too
    /\ [](\A lvl \in 1..NumLevels : \A inLevel \in 0..2 : \A nw \in 0..(RandomDen - 1) :
            generateNewBlock(0, inLevel, getLevelConfig(lvl),
                             calculateLevelParameters(lvl), 1, 0, nw, 0, 0, 0
                            ).block.width >= RelaxedMinimum)

\* an imperfect drop that trimmed the block to its overlap, then one whose
\* overlap was below the relaxed minimum
C3_Witness ==
    /\ Len(tower) >= 3
    /\ ~tower[2].perfectTime /\ tower[2].width > RelaxedMinimum
    /\ tower[2].width < tower[2].originalWidth
    /\ ~tower[3].perfectTime /\ tower[3].width = RelaxedMinimum
    /\ lastResult.success /\ lastResult.overlap < RelaxedMinimum

\* C4: a perfect drop leaves the block's width and horizontal position as
\* they were at the moment of the drop
C4_PerfectKeepsBlock ==
    [][(HitDrop /\ MeetsThreshold)
        => /\ Len(tower') = Len(tower) + 1
           /\ tower'[Len(tower')].width = currentBlock.width
           /\ tower'[Len(tower')].x = currentBlock.x]_vars

\* a perfect drop that did not cover the whole block
C4_Witness ==
    /\ Len(tower) >= 2
    /\ Top.perfectTime
    /\ lastResult.success /\ lastResult.perfectAlignment
    /\ lastResult.overlap < Top.width

\* the number of perfect drops at the top of the tower
TrailingPerfect(t) ==
    LET RECURSIVE Count(_)
        Count(i) == IF i < 1 \/ ~t[i].perfectTime THEN 0 ELSE 1 + Count(i - 1)
    IN  Count(Len(t))

\* C6: comboStreak is the number of consecutive perfect drops since the last
\* non-perfect drop or the session start; a non-perfect drop sets it to 0 and
\* the k-th perfect drop in a row awards 100 * k when no multiplier applies
C6_ComboStreak ==
    /\ [](comboStreak = TrailingPerfect(tower))
    /\ [][HitDrop
           => IF MeetsThreshold
              THEN /\ comboStreak' = comboStreak + 1
                   /\ LEVELS[level].specialMechanics # "precision_challenge"
                        => score' - score - (10 + 5 * level) = 100 * (comboStreak + 1)
              ELSE comboStreak' = 0]_vars

\* a streak of two, broken by an imperfect drop
C6_Witness ==
    /\ Len(tower) = 4
    /\ tower[2].perfectTime /\ tower[3].perfectTime /\ ~tower[4].perfectTime
    /\ comboStreak = 0
    /\ score = 3 * (10 + 5 * startLevel) + 100 + 200

\* C7: a successful drop at level L adds (10 + 5 * L) to the score plus, when
\* perfect, 100 * (comboStreak after the increment) * m, m = 2 under the
\* precision challenge and 1 otherwise; L is the level before the drop
C7_ScoreIncrease ==
    [][HitDrop
        => score' - score =
             (10 + 5 * level)
             + (IF MeetsThreshold
                THEN 100 * comboStreak'
                     * (IF LEVELS[level].specialMechanics = "precision_challenge"
                        THEN 2 ELSE 1)
                ELSE 0)]_vars

\* two perfect drops under the precision challenge
C7_Witness ==
    /\ level = 4 /\ blocksPlaced = 2 /\ comboStreak = 2
    /\ score = 2 * 30 + 200 + 400

Completed == ~isActive /\ level = 7 /\ blocksInCurrentLevel = 3

\* C10: the successful drop that fills level 7's quota ends the session as
\* completed, keeps level 7 and generates no new moving block; a dropBlock
\* call after it reports that there is no block to drop
C10_FinalLevelCompletes ==
    [][DropBlock
        => /\ (Moving /\ Overlap > 0 /\ level = 7 /\ blocksInCurrentLevel + 1 = 3)
                => /\ isActive' = FALSE
                   /\ level' = 7
                   /\ blocksPlaced' = blocksPlaced + 1
                   /\ ~currentBlock'.isMoving
                   /\ currentBlock' = tower'[Len(tower')]
           /\ Completed
                => /\ lastResult' = Result(TRUE, FALSE, FALSE, "No block to drop",
                                           FALSE, 0, 0)
                   /\ UNCHANGED gameVars]_vars

C10_Witness ==
    /\ Completed
    /\ lastResult.message = "No block to drop"
    /\ Len(tower) = 4 /\ currentBlock = Top

----------------------------------------------------------------------------
(* Properties of the session's life cycle *)

\* a step that starts a new session: resetGame(), start() when the game is
\* not paused, or the first initGame
Restart ==
    \/ ResetGame
    \/ (Start /\ ~isPaused)
    \/ \E lvl \in 1..NumLevels : InitGame(lvl)

\* C11: once isActive is false, no drop, tick, pause or resume (nor a timer)
\* makes the session active again or changes score, tower, level,
\* comboStreak or the block counters; only a reset or a new start does
C11_FinishedStays ==
    [][~isActive
        => \/ Restart
           \/ /\ ~isActive'
              /\ UNCHANGED <<score, tower, level, comboStreak, blocksPlaced,
                             blocksInCurrentLevel>>]_vars

\* a session ended by a miss and paused after that: the pause changed
\* isPaused and nothing the claim names
C11_Witness ==
    /\ lastResult.message = "Block missed the tower!"
    /\ ~isActive /\ isPaused
    /\ popupTimers = 0 /\ closeTimers = 0
    /\ Moving /\ blocksPlaced = 2

\* C12: updateGame(deltaTime) changes nothing of the session when it is not
\* active or is paused
C12_TickSkipped ==
    [][\A deltaTime \in DeltaTimes :
         (UpdateGame(deltaTime) /\ (~isActive \/ isPaused))
            => UNCHANGED <<gameVars, timerVars>>]_vars

\* a game paused by the player with its block in flight over the tower
C12_Witness ==
    /\ isActive /\ isPaused
    /\ popupTimers = 0 /\ closeTimers = 0
    /\ Moving /\ Overlap > 0 /\ frames > 0

\* C13: pause() on a started session that is not active or is already paused leaves
\* the session unchanged, isPaused included (resumeGame() is reached only
\* through start() on a paused session)
C13_PauseWrongState ==
    [][(startLevel # 0 /\ PauseGame /\ (~isActive \/ isPaused))
        => UNCHANGED gameVars]_vars

\* C14: resetGame yields level 1, score 0, comboStreak 0, both block
\* counters 0, isActive, not isPaused, a tower of the base block alone and
\* one moving block; initGame(L) yields the same with level L and L's
\* perfectThreshold
C14_FreshSession ==
    /\ [][Restart
           => /\ score' = 0 /\ comboStreak' = 0
              /\ blocksPlaced' = 0 /\ blocksInCurrentLevel' = 0
              /\ isActive' /\ ~isPaused'
              /\ Len(tower') = 1
              /\ tower'[1].id = 0 /\ tower'[1].isPlaced
              /\ tower'[1].width = 150 * UnitsPerPixel
              /\ tower'[1].x = 325 * UnitsPerPixel
              /\ tower'[1].y = 770 * UnitsPerPixel
              /\ currentBlock' # NoBlock /\ currentBlock'.isMoving
              /\ currentBlock'.id = 1
              /\ level' \in 1..NumLevels
              /\ perfectThreshold' = LEVELS[level'].perfectThreshold
              /\ currentLevelConfig' = LEVELS[level']]_vars
    /\ [][ResetGame => level' = 1]_vars
    /\ [][(Start /\ ~isPaused) => level' = level]_vars
    /\ [][\A lvl \in 1..NumLevels : InitGame(lvl) => level' = lvl]_vars

\* a reset in the middle of a level transition: the popup of the level
\* completed before the reset is still waiting for its timer
C14_Witness ==
    /\ level = 1 /\ startLevel = 1 /\ blocksPlaced = 0 /\ score = 0
    /\ isActive /\ ~isPaused
    /\ drops = 3 /\ popupTimers = 1
    /\ Len(tower) = 1 /\ Moving

\* C19: every block in the tower is at least max(minBlockWidth * 0.7, 20)
\* wide
C19_TowerWidths ==
    \A i \in 1..Len(tower) : tower[i].width >= RelaxedMinimum

\* a tower that holds a block of exactly that width
C19_Witness ==
    /\ Len(tower) >= 3
    /\ \E i \in 2..Len(tower) : tower[i].width = RelaxedMinimum
    /\ isActive /\ Moving

\* what placement fixes of a block
Placement(b) == <<b.id, b.width, b.x, b.y>>

\* C20: between two restarts every step leaves the tower as it is or
\* appends one block on top; the blocks below keep their width and
\* position, and the first block is the base block seeded at the start
C20_AppendOnly ==
    /\ [][Restart
           \/ /\ Len(tower') \in {Len(tower), Len(tower) + 1}
              /\ \A i \in 1..Len(tower) : Placement(tower'[i]) = Placement(tower[i])]_vars
    /\ [](startLevel # 0
            => /\ Len(tower) >= 1
               /\ Placement(tower[1]) = <<0, 150 * UnitsPerPixel, 325 * UnitsPerPixel,
                                           770 * UnitsPerPixel>>)

\* a tower of three drops, grown after a restart
C20_Witness ==
    /\ Len(tower) = 3 /\ blocksPlaced = 2 /\ drops = 3
    /\ tower[2].x # tower[3].x

----------------------------------------------------------------------------
(* Properties of the stability check and of the overlap *)

\* twice the sum over adjacent tower pairs of |center(i) - center(i - 1)|
CentreOffsets2(t) ==
    LET RECURSIVE Sum(_)
        Sum(i) == IF i <= 1 THEN 0
                  ELSE Sum(i - 1)
                       + Abs(2 * (t[i].x - t[i - 1].x) + (t[i].width - t[i - 1].width))
    IN  Sum(Len(t))

\* the sum exceeds canvasWidth * 0.6 * max(0.8, 1 - (lvl - 1) * 0.02)
ExceedsMaxOffset(t, lvl) ==
    CentreOffsets2(t) * 100 > 2 * 480 * UnitsPerPixel * Max(80, 100 - (lvl - 1) * 2)

\* a tick of an active, un-paused session
ActiveTick == isActive /\ ~isPaused /\ \E deltaTime \in DeltaTimes : UpdateGame(deltaTime)

C16_CentredOrShortStable ==
    [][(ActiveTick /\ (CentreOffsets2(tower) = 0 \/ Len(tower) < 3))
        => isActive' /\ tower' = tower]_vars

\* a tower of two blocks 650 pixels apart, still standing after ticks at a
\* level whose threshold is 384 pixels
C16_Witness ==
    /\ isActive /\ ~isPaused
    /\ Len(tower) = 2 /\ ExceedsMaxOffset(tower, level)
    /\ level >= 11
    /\ Moving /\ currentBlock.x > 0

\* C17: the collapse threshold loosens with the level, so a tower that
\* collapses on a tick at its level would collapse at every lower level too
C17_LoosensWithLevel ==
    [][(ActiveTick /\ ~isActive')
        => \A lower \in 1..(level - 1) : ExceedsMaxOffset(tower, lower)]_vars

\* the blocks of the state: the tower's and the current block
BlocksInPlay ==
    {tower[i] : i \in 1..Len(tower)}
        \cup (IF currentBlock = NoBlock THEN {} ELSE {currentBlock})

\* C18: calculateOverlap is symmetric and not negative, the overlap of a
\* block with itself is its width, and no overlap is more than the width of
\* the narrower block
C18_OverlapAlgebra ==
    \A a, b \in BlocksInPlay :
        /\ calculateOverlap(a, b) = calculateOverlap(b, a)
        /\ calculateOverlap(a, b) >= 0
        /\ calculateOverlap(a, a) = a.width
        /\ calculateOverlap(a, b) <= Min(a.width, b.width)

\* a state with two blocks apart, two that overlap in part and one that lies
\* within another
C18_Witness ==
    /\ \E a, b \in BlocksInPlay :
          a.x + a.width < b.x /\ calculateOverlap(a, b) = 0
    /\ \E a, b \in BlocksInPlay :
          /\ calculateOverlap(a, b) > 0
          /\ calculateOverlap(a, b) < Min(a.width, b.width)
    /\ \E a, b \in BlocksInPlay :
          a # b /\ a.width < b.width /\ calculateOverlap(a, b) = a.width

----------------------------------------------------------------------------
(* Properties of the blocks of the tower *)

\* C21 as stated: the base block is the widest block of the tower
C21_BaseWidest ==
    \A i \in 1..Len(tower) : tower[i].width <= tower[1].width

\* C21, amended: in a session played from initGame the base block keeps the
\* width it was seeded with (initialBlockWidth, 150 pixels) and every tower
\* block is at most as wide as the top of level 1's width range (180 pixels)
C21_WidthsWithinRange ==
    tower # <<>>
        => /\ tower[1].width = initialBlockWidth
           /\ \A i \in 1..Len(tower) :
                 tower[i].width <= LEVELS[1].blockWidthRange.max

\* two blocks wider than the base lie on it
C21_Witness ==
    /\ Len(tower) = 3
    /\ tower[2].width > tower[1].width
    /\ tower[3].width > tower[1].width
    /\ tower[3].width <= LEVELS[1].blockWidthRange.max

\* C22: within a session the block at tower index i has id i (the model
\* counts tower positions from 1, so tower[i].id = i - 1), the ids of the
\* tower are distinct, and the id of the moving block is greater than every
\* id in the tower
C22_BlockIds ==
    /\ \A i \in 1..Len(tower) : tower[i].id = i - 1
    /\ \A i, j \in 1..Len(tower) : i # j => tower[i].id # tower[j].id
    /\ Moving => \A i \in 1..Len(tower) : currentBlock.id > tower[i].id

\* a session restarted after drops has stacked two blocks of its own
C22_Witness ==
    /\ Moving
    /\ Len(tower) = 3
    /\ drops > blocksPlaced
    /\ currentBlock.id = 3

\* C23: each tower block above the base lies exactly one block height above
\* the block under it, and a successful drop puts the block one block height
\* above the tower top whatever height it had drifted to
C23_RowsSnapped ==
    /\ [](\A i \in 2..Len(tower) : tower[i].y = tower[i - 1].y - blockHeight)
    /\ [][HitDrop => tower'[Len(tower')].y = Top.y - blockHeight]_vars

\* a level of the gravity shift, where every frame changes the height of the
\* moving block: two blocks have been dropped from off their row, and the
\* moving block has left the row it was generated on
C23_Witness ==
    /\ level = 6 /\ startLevel = 6
    /\ Len(tower) = 3
    /\ Moving
    /\ currentBlock.y # canvasHeight - (Len(tower) + 2) * blockHeight

\* C24: every tower block is placed, not moving and has speed 0; while the
\* session is active the current block is moving, not placed and not a block
\* of the tower
C24_PlacedOnce ==
    /\ \A i \in 1..Len(tower) :
          tower[i].isPlaced /\ ~tower[i].isMoving /\ tower[i].speed = 0
    /\ isActive
          => /\ currentBlock # NoBlock
             /\ currentBlock.isMoving
             /\ ~currentBlock.isPlaced
             /\ \A i \in 1..Len(tower) : tower[i] # currentBlock

\* an active session with three placed blocks and a block that has moved
C24_Witness ==
    /\ isActive
    /\ Len(tower) = 4
    /\ Moving
    /\ currentBlock.x > 0

\* C26: a dropBlock() call without a current block, or with a current block
\* that is not moving, returns a result without success and changes nothing
\* of the session
C26_NoBlockNoChange ==
    [][(DropBlock /\ ~Moving)
        => /\ lastResult'.returned
           /\ ~lastResult'.success
           /\ UNCHANGED <<gameVars, timerVars>>]_vars

\* dropBlock() was called before any session was started
C26_Witness ==
    /\ tower = <<>>
    /\ currentBlock = NoBlock
    /\ lastResult.message = "No block to drop"

\* C25: every dropBlock() call returns a result object, whatever the outcome
\* of the drop
C25_DropReturnsResult ==
    [][DropBlock => lastResult'.returned]_vars

----------------------------------------------------------------------------
(* Properties of the game loop *)

\* C27: every updateGame call of the game loop gets a deltaTime of at most
\* 1000/30 ms (FrameCap), whatever the timestamps of the frames are: the
\* first frame, frames 1000/60 ms apart and frames after a long gap
C27_DeltaCapped ==
    [][\A currentTime \in 1..MaxTime :
         GameLoop(currentTime) => \E deltaTime \in 1..FrameCap : updateGame(deltaTime)]_vars

\* the block of a level-1 session has moved by one capped frame and by one
\* frame of 1000/60 ms, at a timestamp that leaves a gap of at least three
\* more frames of 1000/60 ms
C27_Witness ==
    /\ startLevel = 1 /\ isActive /\ ~isPaused
    /\ Moving
    /\ currentBlock.x = currentBlock.speed * (FrameCap + 1)
    /\ lastTime >= FrameCap + 1 + 3

----------------------------------------------------------------------------
(* Properties of the stored high scores *)

\* the stored high-score list and the stored games-played counter
StoredScores == getItemOr(localStorage.highScores, JSONstringify(<<>>)).value

StoredGames == parseInt(getItemOr(localStorage.gamesPlayed, CharsItem(<<"0">>)).value)

\* how often entry e occurs in list
Occurrences(list, e) == Cardinality({i \in 1..Len(list) : list[i] = e})

\* list without its k-th entry
Without(list, k) == SubSeq(list, 1, k - 1) \o SubSeq(list, k + 1, Len(list))

\* list a holds the same entries as list b, each as often
SameEntries(a, b) ==
    /\ Len(a) = Len(b)
    /\ \A i \in 1..Len(b) : Occurrences(a, b[i]) = Occurrences(b, b[i])

\* C28: after any sequence of saveHighScore calls the stored list has at
\* most 10 entries in order of non-increasing score; a call leaves the
\* entries of the list before it plus the new entry, without a lowest-scoring
\* one when that makes 11, and adds exactly 1 to the stored games-played
\* counter
C28_TopTen ==
    /\ [](/\ Len(StoredScores) <= 10
          /\ \A i \in 1..(Len(StoredScores) - 1) :
                StoredScores[i].score >= StoredScores[i + 1].score)
    /\ [][\A sc \in SavedScores, date \in Dates :
            SaveHighScore(sc, date, TRUE)
              => LET all == Append(StoredScores,
                                   [score |-> sc, level |-> level,
                                    blocks |-> blocksPlaced, date |-> date])
                 IN  /\ StoredGames' = StoredGames + 1
                     /\ IF Len(all) <= 10
                        THEN SameEntries(StoredScores', all)
                        ELSE \E k \in 1..Len(all) :
                                /\ SameEntries(StoredScores', Without(all, k))
                                /\ \A i \in 1..Len(all) : all[k].score <= all[i].score]_vars

\* eleven games were saved: the list is full, holds both scores, and one
\* entry has been dropped
C28_Witness ==
    /\ StoredGames = 11
    /\ Len(StoredScores) = 10
    /\ StoredScores[1].score = 130
    /\ StoredScores[10].score = 15

----------------------------------------------------------------------------
(* Properties of getState and setState *)

\* C29: setState(getState()) on a session restores a session whose
\* getState() is the one before: level, score, comboStreak, blocksPlaced,
\* blocksInCurrentLevel, the id, width, position, color and placed flag of
\* every tower block, and the id, width, position, speed, moving flag and
\* color of the current block
C29_RoundTrip ==
    [][SaveAndRestore => getState' = getState]_vars

\* a session was restored after two perfect drops (the restored blocks have
\* lost their perfect mark, the streak is kept) and then played on: a block
\* was dropped on the restored tower and the next one is moving
C29_Witness ==
    /\ isActive /\ Moving
    /\ Len(tower) = 4
    /\ ~tower[3].perfectTime
    /\ comboStreak >= 2
    /\ currentBlock.x > 0

----------------------------------------------------------------------------
(* Properties of the storage calls *)

\* a call that reads or writes the storage
StorageCall ==
    \/ \E sc \in SavedScores, writable \in BOOLEAN : SaveHighScore(sc, 1, writable)
    \/ LoadHighScores
    \/ LoadGameStats
    \/ \E writable \in BOOLEAN : HandleBeforeUnload(writable)

\* C30: a storage call that meets a read or a write that throws, or stored
\* data that does not parse, lets no exception escape and leaves the session
\* unchanged
C30_StorageRecovered ==
    [][StorageCall => (thrown' = "none" /\ UNCHANGED gameVars)]_vars

----------------------------------------------------------------------------
(* Properties of the moving block and of the level parameters *)

\* the row a moving block is generated on
NominalY == canvasHeight - (Len(tower) + 2) * blockHeight

\* C32: a moving block is never more than one block height away from the
\* row it was generated on, whatever the mechanic of the level and however
\* many ticks have moved it
C32_WithinOneRow ==
    Moving => Abs(currentBlock.y - NominalY) <= blockHeight

\* a block of the gravity shift has drifted up to the limit and was stopped
\* there
C32_Witness ==
    /\ isActive /\ Moving
    /\ currentLevelConfig.specialMechanics = "gravity_shift"
    /\ currentBlock.y = NominalY - blockHeight
    /\ currentBlock.verticalSpeed = 0

\* C33: beyond the last defined level the parameters of a level and of the
\* level after it are ordered: speed and perfect threshold do not decrease,
\* the width bounds do not increase and stay at or above 30 and 60 pixels,
\* and the perfect threshold stays strictly between 0 and 100 percent
C33_EndlessMonotonic ==
    (level > NumLevels /\ startLevel = level) =>
        LET p == currentLevelParams
            q == calculateLevelParameters(level + 1)
        IN  /\ p.blockSpeed <= q.blockSpeed
            /\ p.perfectThreshold <= q.perfectThreshold
            /\ q.blockWidthRange.min <= p.blockWidthRange.min
            /\ q.blockWidthRange.max <= p.blockWidthRange.max
            /\ p.blockWidthRange.min >= 30 * UnitsPerPixel
            /\ q.blockWidthRange.min >= 30 * UnitsPerPixel
            /\ p.blockWidthRange.max >= 60 * UnitsPerPixel
            /\ q.blockWidthRange.max >= 60 * UnitsPerPixel
            /\ 0 < p.perfectThreshold /\ q.perfectThreshold < 100

\* a session runs at a level whose widths are at their floors and whose
\* perfect threshold is at its cap
C33_Witness ==
    /\ level > NumLevels /\ startLevel = level /\ Moving
    /\ perfectThreshold = 99
    /\ currentLevelParams.blockWidthRange.min = 30 * UnitsPerPixel
    /\ currentLevelParams.blockWidthRange.max = 60 * UnitsPerPixel
    /\ calculateLevelParameters(level - 1).blockWidthRange.min > 30 * UnitsPerPixel

----------------------------------------------------------------------------
(* Properties of the results of drops and of the tower *)

\* C36: a successful drop that returns a result reports as points the amount
\* by which it raised the score
C36_PointsMatchScore ==
    [][(HitDrop /\ lastResult'.returned /\ lastResult'.success)
        => lastResult'.points = score' - score]_vars

\* C34: every tower block above the base overlaps the block under it
C34_BlocksRest ==
    \A i \in 2..Len(tower) : calculateOverlap(tower[i], tower[i - 1]) > 0

\* C35: once a session exists (started, advanced, reset or restored), its
\* perfect threshold, level configuration and level parameters are those
\* of its level
C35_LevelSettings ==
    tower # <<>> =>
        /\ perfectThreshold = calculateLevelParameters(level).perfectThreshold
        /\ currentLevelConfig.id = level
        /\ currentLevelParams = calculateLevelParameters(level)

----------------------------------------------------------------------------
(* Properties of the timers *)

\* the stored list parses
ListStored == parses(getItemOr(localStorage.highScores, JSONstringify(<<>>)))

\* the summary of the session as saveHighScore writes it
Summary == [score |-> score, level |-> level, blocks |-> blocksPlaced, date |-> 1]

\* the stored list holds the summary of the session
SummaryStored ==
    ListStored /\ \E i \in 1..Len(StoredScores) : StoredScores[i] = Summary

\* the step appends exactly one entry, the summary of the session
SummaryAppended ==
    /\ ListStored /\ ListStored'
    /\ Len(StoredScores') = Len(StoredScores) + 1
    /\ Occurrences(StoredScores', Summary) = Occurrences(StoredScores, Summary) + 1

\* C31: a session that has ended in game over and is not reset gets its
\* summary stored: the game-over timer's callback on the ended session
\* appends exactly one entry with the session's score, level and blocks
\* placed, and an ended session leads to a stored summary or to a reset
C31_GameOverRecorded ==
    /\ [][(GameOverTimer /\ ~isActive) => SummaryAppended]_vars
    /\ ((tower # <<>> /\ ~isActive) ~> (isActive \/ SummaryStored))

\* C37: the callback of a game-over timer, which shows the game-over screen
\* and saves the score, runs only on a session that is not active: never
\* on a session that a reset has started in the meantime
C37_GameOverOnlyWhenEnded ==
    [][GameOverTimer => ~isActive]_vars

\* a pause the user asked for is in effect: pauseGame has shown the pause
\* overlay and neither resumeGame nor a reset has hidden it
UserPaused == pauseOverlay /\ isPaused

\* C38: while a pause the user asked for is in effect, isPaused becomes
\* false only by the user's resume, by a start or by a reset: no timer
\* callback ends the pause
C38_UserPauseStays ==
    [][(UserPaused /\ ~isPaused') => (Start \/ Restart)]_vars

\* C39: a level advance pauses the session and sets the popup's timer, and
\* a running session that is paused for the popup becomes un-paused again,
\* still running, by the timers alone
C39_AdvanceResumes ==
    /\ [][level' > level => (isPaused' /\ popupTimers' = popupTimers + 1)]_vars
    /\ ((isActive /\ isPaused) ~> (isActive /\ ~isPaused))

\* after the advance to level 2 the popup's timers have fired and ticks
\* have moved the first block of the new level over the tower
C39_Witness ==
    /\ level = 2 /\ isActive /\ ~isPaused
    /\ popupTimers = 0 /\ closeTimers = 0
    /\ Moving /\ Overlap > 0 /\ frames > 0

----------------------------------------------------------------------------
(* Properties of the block counters *)

====
